---- MODULE Spec2Model ----
(***************************************************************************)
(* Airfoil coordinate pipeline of airfoil-backend:                         *)
(*   - parse_airfoil_csv / process_coordinates_for_output (csv_processor)  *)
(*   - the /process-csv and /generate-naca routes (routes/airfoil.py)      *)
(*   - generate_naca_4digit / format_airfoil_txt (naca_generator)          *)
(*                                                                         *)
(* Floats are fixed-point: a finite value is an integer count of 1/Scale,  *)
(* and the two non-finite values Python's float() and IEEE division can    *)
(* produce here (inf, nan) are kept as their own kinds.  A text is a       *)
(* sequence of lines, a line the sequence of its comma-separated fields.   *)
(***************************************************************************)
EXTENDS Integers, Sequences, FiniteSets, TLC

\* ------------------------------------------------------------------ bounds

\* Longest uploaded text, in lines.
MaxLines == 4

\* Longest NACA code string, in characters.
MaxCodeLen == 5

\* Largest num_points of a direct call of generate_naca_4digit.
MaxPoints == 4

\* Longest sequence handed to process_coordinates_for_output on its own.
MaxSeqLen == 4

\* Most /process-csv requests served at the same time.
MaxRequests == 2

\* ------------------------------------------------------------------ floats

\* Resolution of the fixed-point stand-in for a Python float: units per 1.0.
Scale == 10000000

\* 1e-6 in units of 1/Scale.
Micro == Scale \div 1000000

Fin(n) == [k |-> "fin", v |-> n]
Inf == [k |-> "inf", v |-> 0]
NaN == [k |-> "nan", v |-> 0]

\* a < b on floats: every comparison with nan is false.
Less(a, b) ==
    CASE a.k = "nan" \/ b.k = "nan" -> FALSE
      [] a.k = "inf" -> FALSE
      [] b.k = "inf" -> TRUE
      [] OTHER -> a.v < b.v

\* (n * unit) \div d by long division, one decimal digit at a time, so that
\* no intermediate product leaves the checker's 32-bit integers.
RECURSIVE LongDiv(_, _, _, _)
LongDiv(q, rem, d, unit) ==
    IF unit = 1 THEN q
    ELSE LongDiv(q * 10 + (rem * 10) \div d, (rem * 10) % d, d, unit \div 10)

\* a / m for m > 0 (finite quotients are cut to the model's resolution).
FDiv(a, m) ==
    CASE a.k = "nan" \/ m.k = "nan" -> NaN
      [] a.k = "inf" /\ m.k = "inf" -> NaN
      [] a.k = "inf" -> Inf
      [] m.k = "inf" -> Fin(0)
      [] OTHER -> Fin(LongDiv(a.v \div m.v, a.v % m.v, m.v, Scale))

\* abs(a - b) < tol: false as soon as the difference is inf or nan.
AbsDiffLess(a, b, tol) ==
    /\ a.k = "fin"
    /\ b.k = "fin"
    /\ (IF a.v >= b.v THEN a.v - b.v ELSE b.v - a.v) < tol

\* np.max over a non-empty sequence of floats: nan propagates.
RECURSIVE NpMax(_)
NpMax(xs) ==
    IF Len(xs) = 1 THEN xs[1]
    ELSE LET m == NpMax(Tail(xs))
             h == xs[1]
         IN  CASE h.k = "nan" -> h
               [] m.k = "nan" -> m
               [] Less(h, m) -> m
               [] OTHER -> h

\* ------------------------------------------------------------------ fields

\* float(s): the decimal literals of the model's vocabulary, and "inf".
\* Any other field raises ValueError.
IsFloat(s) == s \in {"0", "0.5", "1", "10", "20", "inf"}

ParseFloat(s) ==
    CASE s = "0" -> Fin(0)
      [] s = "0.5" -> Fin(Scale \div 2)
      [] s = "1" -> Fin(Scale)
      [] s = "10" -> Fin(10 * Scale)
      [] s = "20" -> Fin(20 * Scale)
      [] s = "inf" -> Inf

\* Substring tests of the scanner, per field of the vocabulary.
HasAirfoilSurface(s) == s \in {"Airfoil surface"}
HasCamberLine(s) == s \in {"Camber line"}
HasChordLine(s) == s \in {"Chord line"}
HasSurface(s) == s \in {"Airfoil surface"}
HasLowerX(s) == s \in {"X(mm)"}
HasLowerY(s) == s \in {"Y(mm)"}
HasXParen(s) == s \in {"X(mm)"}
HasYParen(s) == s \in {"Y(mm)"}

\* The lines a text is drawn from.
LineSet ==
    { <<"Name", "NACA 2412">>,
      <<"Chord(mm)", "20">>,
      <<"Airfoil surface", "">>,
      <<"Camber line", "">>,
      <<"Chord line", "">>,
      <<"X(mm)", "Y(mm)">>,
      <<"1", "0">>,
      <<"0", "0">>,
      <<"20", "10">>,
      <<"inf", "0">>,
      <<"0.5", "">> }

RECURSIVE SeqsUpTo(_, _)
SeqsUpTo(S, n) ==
    IF n = 0 THEN { <<>> }
    ELSE LET shorter == SeqsUpTo(S, n - 1)
         IN  shorter \cup { Append(s, e) : s \in { t \in shorter : Len(t) = n - 1 }, e \in S }

Texts == SeqsUpTo(LineSet, MaxLines)

\* ------------------------------------------------------------------ state

VARIABLES
    pc,                 \* where the request is: "request", "open", "scan", ..., "done"
    upload,             \* "missing" (no csv_file part), "noname" (empty filename), "file"
    text,               \* the uploaded file's content
    temp_exists,        \* whether the request's temporary file is on disk
    lines,              \* parse_airfoil_csv: content.strip().split('\n')
    i,                  \* index of the next line of the scan (1-based)
    airfoil_name,
    metadata,
    coordinate_data,
    in_coordinates,
    coordinate_section,
    found_header,
    origin,             \* history: for each collected pair, the index of its line
    coords,             \* (x_coords, y_coords) as returned by parse_airfoil_csv
    processed,          \* (x_processed, y_processed)
    error,              \* message of the exception in flight, "" when none
    response,           \* what the route returns
    \* generate_naca_4digit and the /generate-naca route
    gen_pc,             \* "idle"; "call" then "returned"; "route" then "answered"
    naca_code,          \* the code as received: a string, a JSON number or null
    num_points,
    gen_coords,         \* (x_coords, y_coords) returned by generate_naca_4digit
    gen_header,         \* header_info
    gen_raised,         \* the exception generate_naca_4digit raised, "" when none
    gen_response,       \* what the /generate-naca route returns
    \* process_coordinates_for_output called on its own
    norm_pc,            \* "idle", "input", "done"
    norm_in,
    norm_out,
    \* several /process-csv requests served at once, and the directory of
    \* temporary files they share
    req_pc,             \* per request: "idle", "request", "save", "parse", "exists", "unlink", "done"
    req_upload,         \* per request: "missing", "nodata" or "good" (what the csv_file part holds)
    temp_file,          \* per request: temp_file.name, 0 before line 51
    temp_path,          \* per request: temp_path, 0 before line 53
    disk,               \* per name: whether the file exists, which request created it, its content
    req_read,           \* per request: the creator of the file parse_airfoil_csv opened, 0 when none
    req_unlinked,       \* per request: the creator of the file os.unlink removed, 0 when none
    req_status          \* per request: the status answered, 0 before the return

csv_vars == << pc, upload, text, temp_exists, lines, i,
               airfoil_name, metadata, coordinate_data, in_coordinates,
               coordinate_section, found_header, origin, coords, processed,
               error, response >>

gen_vars == << gen_pc, naca_code, num_points, gen_coords, gen_header,
               gen_raised, gen_response >>

norm_vars == << norm_pc, norm_in, norm_out >>

upload_vars == << req_pc, req_upload, temp_file, temp_path, disk,
                  req_read, req_unlinked, req_status >>

vars == << csv_vars, gen_vars, norm_vars, upload_vars >>

scan_vars == << lines, i, airfoil_name, metadata, coordinate_data,
                in_coordinates, coordinate_section, found_header, origin >>

request_vars == << upload, text >>

\* ------------------------------------------------------------------ parse_airfoil_csv

NoMetadata == [key \in {} |-> <<>>]

\* metadata[key] = value
DictSet(d, key, value) ==
    [q \in (DOMAIN d) \cup {key} |-> IF q = key THEN value ELSE d[q]]

\* content.strip().split('\n'): an empty content still yields one empty line.
SplitLines(t) == IF t = <<>> THEN << <<"">> >> ELSE t

IsBlank(line) == line = <<"">> \/ line = <<"", "">>
IsNameLine(line) == Len(line) >= 2 /\ line[1] = "Name"
IsSurfaceMarker(line) == (\E j \in 1..Len(line) : HasAirfoilSurface(line[j]))
\* Mutant: the test without .lower(), which misses "Camber line".
IsCamberMarkerCaseSensitive(line) == \E j \in 1..Len(line) : line[j] = "camber line"
IsCamberMarker(line) == (\E j \in 1..Len(line) : HasCamberLine(line[j]))
IsChordMarker(line) == (\E j \in 1..Len(line) : HasChordLine(line[j]))
HasComma(line) == Len(line) >= 2
IsColumnHeader(line) ==
    \/ (\E j \in 1..Len(line) : HasXParen(line[j])) /\ (\E j \in 1..Len(line) : HasYParen(line[j]))
    \/ (\E j \in 1..Len(line) : HasLowerX(line[j])) /\ (\E j \in 1..Len(line) : HasLowerY(line[j]))

\* line.split(',', 1): both sides non-empty, and the key is no column label.
IsMetadataPair(line) ==
    /\ line[1] # ""
    /\ Tail(line) # <<"">>
    /\ line[1] \notin {"X(mm)", "Y(mm)", "X", "Y"}
    /\ ~HasSurface(line[1])

\* Mutant: the emptiness test made on the parsed numbers, where 0.0 is falsy.
IsCoordinateRowTruthy(line) ==
    /\ IsFloat(line[1])
    /\ IsFloat(line[2])
    /\ ParseFloat(line[1]) # Fin(0)
    /\ ParseFloat(line[2]) # Fin(0)

\* The row's (x, y) when both fields are non-empty floats.
IsCoordinateRow(line) ==
    /\ line[1] # ""
    /\ line[2] # ""
    /\ ~(HasXParen(line[1]) \/ HasYParen(line[1]))
    /\ IsFloat(line[1])
    /\ IsFloat(line[2])

RowPoint(line) == << ParseFloat(line[1]), ParseFloat(line[2]) >>

Xs(cs) == [j \in 1..Len(cs) |-> cs[j][1]]

\* Lines 103-107: rescale by max x when it exceeds 10.
NormalizeUnits(cs) ==
    LET max_x == NpMax(Xs(cs))
    IN  IF Less(Fin(10 * Scale), max_x)
        THEN [j \in 1..Len(cs) |-> << FDiv(cs[j][1], max_x), FDiv(cs[j][2], max_x) >>]
        ELSE cs

\* ------------------------------------------------------------------ process_coordinates_for_output

Reverse(s) == [j \in 1..Len(s) |-> s[Len(s) + 1 - j]]

\* Insert point p into a list sorted by x, after every element that is not
\* greater (list.sort is stable and compares keys with < only).
RECURSIVE InsertByX(_, _)
InsertByX(sorted, p) ==
    IF sorted = <<>> THEN << p >>
    ELSE LET last == sorted[Len(sorted)]
         IN  IF Less(p[1], last[1])
             THEN Append(InsertByX(SubSeq(sorted, 1, Len(sorted) - 1), p), last)
             ELSE Append(sorted, p)

\* list.sort(key=lambda coord: coord[0])
RECURSIVE SortByX(_)
SortByX(s) ==
    IF s = <<>> THEN <<>>
    ELSE InsertByX(SortByX(SubSeq(s, 1, Len(s) - 1)), s[Len(s)])

\* list.sort(key=..., reverse=True): reverse, sort ascending, reverse back.
SortByXReverse(s) == Reverse(SortByX(Reverse(s)))

\* Lines 139-143: 0-based indexes 0..len//2 go to the upper surface.
UpperSurface(cs) == SubSeq(cs, 1, (Len(cs) \div 2) + 1)
LowerSurface(cs) == SubSeq(cs, (Len(cs) \div 2) + 2, Len(cs))

\* 1e-6, the tolerance of the leading-edge test.
Tolerance == Micro

\* Lines 151-154: whether the first point of the sorted lower surface goes.
DropsLeadingEdge(upper, lower) ==
    /\ lower # <<>>
    /\ upper # <<>>
    /\ AbsDiffLess(lower[1][1], upper[Len(upper)][1], Tolerance)

process_coordinates_for_output(cs) ==
    LET upper == SortByXReverse(UpperSurface(cs))
        sorted_lower == SortByX(LowerSurface(cs))
        lower == IF DropsLeadingEdge(upper, sorted_lower)
                 THEN Tail(sorted_lower)
                 ELSE sorted_lower
    IN  upper \o lower

\* ------------------------------------------------------------------ rendering

\* f"{v:.6f}": the value in millionths, rounded to the nearest; "inf" and
\* "nan" print as such.
Format6(a) ==
    IF a.k = "fin" THEN Fin((a.v + (Micro \div 2)) \div Micro)
    ELSE a

\* The text is the "\n"-join of these lines: a name line, a Standard row of
\* two columns, or a SolidWorks row of three (z = 0.000000).
NameLine(name) == [kind |-> "name", name |-> name, cols |-> <<>>]
RowLine(cols) == [kind |-> "row", name |-> <<>>, cols |-> cols]

StandardRows(cs) ==
    [j \in 1..Len(cs) |-> RowLine(<< Format6(cs[j][1]), Format6(cs[j][2]) >>)]

SolidWorksRows(cs) ==
    [j \in 1..Len(cs) |->
        RowLine(<< Format6(cs[j][1]), Format6(cs[j][2]), Format6(Fin(0)) >>)]

\* Mutant: the name line is written in both formats.
RenderLinesAlwaysNamed(cs, name, solidworks) ==
    << NameLine(name) >> \o (IF solidworks THEN SolidWorksRows(cs) ELSE StandardRows(cs))

RenderLines(cs, name, solidworks) ==
    IF solidworks
    THEN SolidWorksRows(cs)
    ELSE << NameLine(name) >> \o StandardRows(cs)

\* ------------------------------------------------------------------ /process-csv

NoResponse ==
    [status |-> 0, error |-> "", coordinates |-> <<>>, name |-> <<>>,
     format |-> "", point_count |-> 0, metadata |-> NoMetadata]

ErrorResponse(status, message) == [NoResponse EXCEPT !.status = status, !.error = message]

NoDataMessage == "Error parsing CSV file: No valid coordinate data found in CSV file"
UnreadableMessage == "Error parsing CSV file: [Errno 2] No such file or directory"
SaveFailedMessage == "[Errno 28] No space left on device"

\* The variables of a request before its first step.
CsvFresh ==
    /\ temp_exists = FALSE
    /\ lines = <<>>
    /\ i = 0
    /\ airfoil_name = <<>>
    /\ metadata = NoMetadata
    /\ coordinate_data = <<>>
    /\ in_coordinates = FALSE
    /\ coordinate_section = "None"
    /\ found_header = FALSE
    /\ origin = <<>>
    /\ coords = <<>>
    /\ processed = <<>>
    /\ error = ""
    /\ response = NoResponse

\* A /process-csv request arrives.
CsvRequest ==
    /\ pc = "request"
    /\ \/ upload \in {"missing", "noname"} /\ text = <<>>
       \/ upload = "file" /\ text \in Texts
    /\ CsvFresh

CsvIdle == pc = "idle" /\ upload = "missing" /\ text = <<>> /\ CsvFresh

GenIdle ==
    /\ gen_pc = "idle"
    /\ naca_code = [type |-> "null", chars |-> <<>>, n |-> 0]
    /\ num_points = 0
    /\ gen_coords = [x |-> <<>>, y |-> <<>>]
    /\ gen_header = <<>>
    /\ gen_raised = ""
    /\ gen_response = NoResponse

NormIdle == norm_pc = "idle" /\ norm_in = <<>> /\ norm_out = <<>>

\* The requests served at once, and the names tempfile can give a file.
Requests == 1..MaxRequests
TempNames == 1..MaxRequests

NoFile == [on |-> FALSE, creator |-> 0, content |-> ""]

UploadsFresh ==
    /\ temp_file = [r \in Requests |-> 0]
    /\ temp_path = [r \in Requests |-> 0]
    /\ disk = [n \in TempNames |-> NoFile]
    /\ req_read = [r \in Requests |-> 0]
    /\ req_unlinked = [r \in Requests |-> 0]
    /\ req_status = [r \in Requests |-> 0]

UploadsIdle ==
    /\ req_pc = [r \in Requests |-> "idle"]
    /\ req_upload = [r \in Requests |-> "missing"]
    /\ UploadsFresh

Init == CsvRequest /\ GenIdle /\ NormIdle /\ UploadsIdle

\* Lines 41-42: no csv_file part in the request.
NoFileUploaded ==
    /\ pc = "request"
    /\ upload = "missing"
    /\ response' = ErrorResponse(400, "No CSV file uploaded")
    /\ pc' = "done"
    /\ UNCHANGED << request_vars, temp_exists, scan_vars, coords, processed, error >>
    /\ UNCHANGED << gen_vars, norm_vars, upload_vars >>

\* Lines 44-46: the part has an empty filename.
NoFileSelected ==
    /\ pc = "request"
    /\ upload = "noname"
    /\ response' = ErrorResponse(400, "No file selected")
    /\ pc' = "done"
    /\ UNCHANGED << request_vars, temp_exists, scan_vars, coords, processed, error >>
    /\ UNCHANGED << gen_vars, norm_vars, upload_vars >>

\* Lines 50-53: the temporary file is created and the upload saved into it.
SaveUpload ==
    /\ pc = "request"
    /\ upload = "file"
    /\ temp_exists' = TRUE
    /\ pc' = "open"
    /\ UNCHANGED << request_vars, scan_vars, coords, processed, error, response >>
    /\ UNCHANGED << gen_vars, norm_vars, upload_vars >>

\* Lines 50-52, 87-88: file.save raises inside the with block; the outer
\* handler answers 500 and the try/finally of line 55 is never entered.
SaveUploadFails ==
    /\ pc = "request"
    /\ upload = "file"
    /\ temp_exists' = TRUE
    /\ response' = ErrorResponse(500, SaveFailedMessage)
    /\ pc' = "done"
    /\ UNCHANGED << request_vars, scan_vars, coords, processed, error >>
    /\ UNCHANGED << gen_vars, norm_vars, upload_vars >>

\* parse_airfoil_csv lines 19-35: the file is read and the scan set up.
OpenCsv ==
    /\ pc = "open"
    /\ lines' = SplitLines(text)
    /\ i' = 1
    /\ airfoil_name' = << "Unknown Airfoil" >>
    /\ metadata' = NoMetadata
    /\ coordinate_data' = <<>>
    /\ in_coordinates' = FALSE
    /\ coordinate_section' = "None"
    /\ found_header' = FALSE
    /\ origin' = <<>>
    /\ pc' = "scan"
    /\ UNCHANGED << request_vars, temp_exists, coords, processed, error, response >>
    /\ UNCHANGED << gen_vars, norm_vars, upload_vars >>

\* parse_airfoil_csv lines 21, 111-112: open() raises, re-raised as ValueError.
OpenCsvFails ==
    /\ pc = "open"
    /\ error' = UnreadableMessage
    /\ pc' = "finally"
    /\ UNCHANGED << request_vars, temp_exists, scan_vars, coords, processed, response >>
    /\ UNCHANGED << gen_vars, norm_vars, upload_vars >>

\* parse_airfoil_csv lines 37-93: the body of the loop for one line, on the
\* scan's variables as a record.
ScanStep(st, line, idx) ==
    IF IsBlank(line) THEN st
    ELSE IF IsNameLine(line) THEN [st EXCEPT !.airfoil_name = Tail(line)]
    ELSE IF IsSurfaceMarker(line)
    THEN [st EXCEPT !.coordinate_section = "surface",
                    !.in_coordinates = FALSE,
                    !.found_header = TRUE]
    ELSE IF IsCamberMarker(line)
    THEN [st EXCEPT !.coordinate_section = "camber", !.in_coordinates = FALSE]
    ELSE IF IsChordMarker(line)
    THEN [st EXCEPT !.coordinate_section = "chord", !.in_coordinates = FALSE]
    ELSE IF HasComma(line) /\ ~st.in_coordinates /\ ~st.found_header
    THEN IF IsMetadataPair(line)
         THEN [st EXCEPT !.metadata = DictSet(st.metadata, line[1], Tail(line))]
         ELSE st
    ELSE IF IsColumnHeader(line)
    THEN IF st.coordinate_section = "surface"
         THEN [st EXCEPT !.in_coordinates = TRUE]
         ELSE st
    ELSE IF st.coordinate_section = "surface" /\ HasComma(line) /\ IsCoordinateRow(line)
    THEN [st EXCEPT !.coordinate_data = Append(st.coordinate_data, RowPoint(line)),
                    !.origin = Append(st.origin, idx)]
    ELSE st

ScanState ==
    [airfoil_name |-> airfoil_name, metadata |-> metadata,
     coordinate_data |-> coordinate_data, in_coordinates |-> in_coordinates,
     coordinate_section |-> coordinate_section, found_header |-> found_header,
     origin |-> origin]

\* One iteration of the loop of line 37.
ScanLine ==
    /\ pc = "scan"
    /\ i <= Len(lines)
    /\ LET st == ScanStep(ScanState, lines[i], i)
       IN  /\ airfoil_name' = st.airfoil_name
           /\ metadata' = st.metadata
           /\ coordinate_data' = st.coordinate_data
           /\ in_coordinates' = st.in_coordinates
           /\ coordinate_section' = st.coordinate_section
           /\ found_header' = st.found_header
           /\ origin' = st.origin
    /\ i' = i + 1
    /\ UNCHANGED << pc, request_vars, temp_exists, lines, coords, processed, error, response >>
    /\ UNCHANGED << gen_vars, norm_vars, upload_vars >>

\* Mutant: no check for an empty coordinate list; empty arrays are returned.
FinishParseReturnsEmpty ==
    /\ pc = "scan"
    /\ i > Len(lines)
    /\ coords' = IF coordinate_data = <<>> THEN <<>> ELSE NormalizeUnits(coordinate_data)
    /\ pc' = IF coordinate_data = <<>> THEN "finally" ELSE "process"
    /\ UNCHANGED << request_vars, temp_exists, scan_vars, processed, error, response >>
    /\ UNCHANGED << gen_vars, norm_vars, upload_vars >>

\* parse_airfoil_csv lines 95-112: after the loop, raise on no data or return
\* the (rescaled) coordinates to line 57 of the route.
FinishParse ==
    /\ pc = "scan"
    /\ i > Len(lines)
    /\ IF coordinate_data = <<>>
       THEN /\ error' = NoDataMessage
            /\ pc' = "finally"
            /\ UNCHANGED coords
       ELSE /\ coords' = NormalizeUnits(coordinate_data)
            /\ pc' = "process"
            /\ UNCHANGED error
    /\ UNCHANGED << request_vars, temp_exists, scan_vars, processed, response >>
    /\ UNCHANGED << gen_vars, norm_vars, upload_vars >>

\* Route line 60.
ProcessCoordinates ==
    /\ pc = "process"
    /\ processed' = process_coordinates_for_output(coords)
    /\ pc' = "format"
    /\ UNCHANGED << request_vars, temp_exists, scan_vars, coords, error, response >>
    /\ UNCHANGED << gen_vars, norm_vars, upload_vars >>

\* Route lines 48, 62-80: the text and the JSON body of the answer.  The
\* form's solidworks_format flag is read by nothing before line 63, so it is
\* drawn here.
FormatResponse ==
    /\ pc = "format"
    /\ \E solidworks_format \in BOOLEAN :
         response' =
           [status |-> 200, error |-> "",
            coordinates |-> RenderLines(processed, airfoil_name, solidworks_format),
            name |-> airfoil_name,
            format |-> IF solidworks_format THEN "solidworks" ELSE "standard",
            point_count |-> Len(processed),
            metadata |-> metadata]
    /\ pc' = "finally"
    /\ UNCHANGED << request_vars, temp_exists, scan_vars, coords, processed, error >>
    /\ UNCHANGED << gen_vars, norm_vars, upload_vars >>

\* Route lines 82-88: the temporary file is unlinked; an exception in flight
\* reaches the outer handler, which answers 500 with its message.
Finally ==
    /\ pc = "finally"
    /\ temp_exists' = FALSE
    /\ response' = IF error # "" THEN ErrorResponse(500, error) ELSE response
    /\ pc' = "done"
    /\ UNCHANGED << request_vars, scan_vars, coords, processed, error >>
    /\ UNCHANGED << gen_vars, norm_vars, upload_vars >>

Next ==
    \/ NoFileUploaded
    \/ NoFileSelected
    \/ SaveUpload
    \/ SaveUploadFails
    \/ OpenCsv
    \/ OpenCsvFails
    \/ ScanLine
    \/ FinishParse
    \/ ProcessCoordinates
    \/ FormatResponse
    \/ Finally

Spec == Init /\ [][Next]_vars

\* ------------------------------------------------------------------ the text, read independently of the scan

\* The section a line opens by its words, "" when it opens none.
MarkerOf(line) ==
    IF \E j \in 1..Len(line) : HasAirfoilSurface(line[j]) THEN "surface"
    ELSE IF \E j \in 1..Len(line) : HasCamberLine(line[j]) THEN "camber"
    ELSE IF \E j \in 1..Len(line) : HasChordLine(line[j]) THEN "chord"
    ELSE ""

\* The most recent section marker strictly before line idx, "" when none.
RECURSIVE SectionBefore(_, _)
SectionBefore(ls, idx) ==
    IF idx <= 1 THEN ""
    ELSE IF MarkerOf(ls[idx - 1]) # "" THEN MarkerOf(ls[idx - 1])
    ELSE SectionBefore(ls, idx - 1)

\* A row whose first two fields both parse as numbers.
ParseableRow(line) == Len(line) >= 2 /\ IsFloat(line[1]) /\ IsFloat(line[2])

Scanning == pc \notin {"request", "open"} /\ i >= 1

\* C1: every collected (x, y) pair is the parsed row of a line whose most
\* recent preceding section marker is 'airfoil surface' (never a line before
\* any marker, nor one under 'camber line' or 'chord line'), and a parseable
\* row under an 'airfoil surface' marker that follows an earlier 'camber line'
\* or 'chord line' marker is collected again.
OnlySurfaceRowsCollected ==
    Scanning =>
      /\ Len(origin) = Len(coordinate_data)
      /\ \A n \in 1..Len(origin) :
           /\ origin[n] \in 1..(i - 1)
           /\ SectionBefore(lines, origin[n]) = "surface"
           /\ coordinate_data[n] = RowPoint(lines[origin[n]])
      /\ \A idx \in 1..(i - 1) :
           ( /\ ParseableRow(lines[idx])
             /\ SectionBefore(lines, idx) = "surface"
             /\ \E e \in 1..(idx - 1) : MarkerOf(lines[e]) \in {"camber", "chord"} )
           => \E n \in 1..Len(origin) : origin[n] = idx

\* C1's case: a row under 'camber line' was passed over and a row under a
\* later 'airfoil surface' marker was collected.
SurfaceResumedAfterCamber ==
    /\ pc = "done"
    /\ Len(lines) = 4
    /\ MarkerOf(lines[1]) \in {"camber", "chord"}
    /\ ParseableRow(lines[2])
    /\ MarkerOf(lines[3]) = "surface"
    /\ origin = << 4 >>
    /\ response.status = 200

\* C2 (as claimed): once a section marker ('airfoil surface', 'camber line'
\* or 'chord line') has been scanned, no later line adds or changes a
\* metadata entry.
MarkerSeen == pc = "scan" /\ \E e \in 1..(i - 1) : MarkerOf(lines[e]) # ""

MetadataFrozenAfterAnyMarker == [][MarkerSeen => metadata' = metadata]_vars

\* C3 (as claimed): a failed call is classified: no coordinate data is a
\* 4xx answer with a message, and a 5xx answer is given only for an I/O
\* failure (the source could not be saved or read).
FailuresClassified ==
    pc = "done" =>
      /\ error = NoDataMessage =>
           response.status \in 400..499 /\ response.error # ""
      /\ response.status \in 500..599 =>
           response.error \in {UnreadableMessage, SaveFailedMessage}

Returned == Scanning /\ pc # "scan"

\* C4: when the scan recovers zero coordinate pairs the extractor raises the
\* no-coordinate-data error and returns nothing (no coordinates, and the
\* answer carries no name, metadata or coordinates); whenever it does return,
\* the coordinate sequence is non-empty.
NoDataIsAnError ==
    Returned =>
      IF coordinate_data = <<>>
      THEN /\ error = NoDataMessage
           /\ coords = <<>>
           /\ processed = <<>>
           /\ pc \in {"finally", "done"}
           /\ pc = "done" => response = ErrorResponse(500, NoDataMessage)
      ELSE /\ error = ""
           /\ Len(coords) = Len(coordinate_data)
           /\ pc = "done" => response.status = 200 /\ response.point_count >= 1

\* C4's case: an 'airfoil surface' section without a parseable row, after a
\* name and a metadata entry were captured, has been answered.
EmptySurfaceSectionRejected ==
    /\ pc = "done"
    /\ \E e \in 1..Len(lines) : MarkerOf(lines[e]) = "surface"
    /\ coordinate_data = <<>>
    /\ airfoil_name # << "Unknown Airfoil" >>
    /\ metadata # NoMetadata
    /\ response.error = NoDataMessage

\* The indexes (ascending) of the first n lines that are parseable rows under
\* an 'airfoil surface' marker.
RECURSIVE SurfaceRowIndexes(_, _)
SurfaceRowIndexes(ls, n) ==
    IF n = 0 THEN <<>>
    ELSE IF ParseableRow(ls[n]) /\ SectionBefore(ls, n) = "surface"
         THEN Append(SurfaceRowIndexes(ls, n - 1), n)
         ELSE SurfaceRowIndexes(ls, n - 1)

\* C5: the collected pairs are exactly the parsed rows of the numerically
\* parseable surface rows scanned so far, in file order: a row with an empty
\* or non-numeric x or y contributes nothing and stops nothing.
MalformedRowsSkipped ==
    Scanning =>
      /\ origin = SurfaceRowIndexes(lines, i - 1)
      /\ coordinate_data = [n \in 1..Len(origin) |-> RowPoint(lines[origin[n]])]

\* C5's case: a row with an empty y between two parseable surface rows.
RowsAroundMalformedRowCollected ==
    /\ pc = "done"
    /\ Len(lines) = 4
    /\ MarkerOf(lines[1]) = "surface"
    /\ lines[3] = << "0.5", "" >>
    /\ origin = << 2, 4 >>
    /\ response.status = 200

IsRow(textline, columns) == textline.kind = "row" /\ Len(textline.cols) = columns

\* C8: a CSV with k >= 1 numerically parseable surface rows is answered with
\* k or k-1 points; the text has exactly that many coordinate lines, after
\* exactly one name line in Standard format and after nothing in SolidWorks
\* format.
RoundTripPointCount ==
    (pc = "done" /\ response.status = 200) =>
      LET k == Len(SurfaceRowIndexes(lines, Len(lines)))
          n == response.point_count
          out == response.coordinates
      IN  /\ k >= 1
          /\ n \in {k, k - 1}
          /\ Len(processed) = n
          /\ IF response.format = "standard"
             THEN /\ Len(out) = n + 1
                  /\ out[1] = NameLine(airfoil_name)
                  /\ \A j \in 2..Len(out) : IsRow(out[j], 2)
             ELSE /\ response.format = "solidworks"
                  /\ Len(out) = n
                  /\ \A j \in 1..Len(out) : IsRow(out[j], 3)

\* C8's case: three parseable rows, one point dropped at the leading edge,
\* rendered in Standard format.
RoundTripDropsOnePoint ==
    /\ pc = "done"
    /\ response.status = 200
    /\ response.format = "standard"
    /\ Len(origin) = 3
    /\ response.point_count = 2

\* C9 (as claimed): when the maximum collected x exceeds 10 every x and y is
\* divided by it and the returned maximum x is 1; otherwise the collected
\* coordinates are returned unchanged.
One == Fin(Scale)

MaxXIsOne(cs) ==
    /\ \E j \in 1..Len(cs) : cs[j][1] = One
    /\ \A j \in 1..Len(cs) : cs[j][1].k = "fin" /\ cs[j][1].v <= Scale

UnitChordAfterRescale ==
    (Returned /\ coordinate_data # <<>>) =>
      LET max_x == NpMax(Xs(coordinate_data))
      IN  IF Less(Fin(10 * Scale), max_x)
          THEN /\ coords = [j \in 1..Len(coordinate_data) |->
                              << FDiv(coordinate_data[j][1], max_x),
                                 FDiv(coordinate_data[j][2], max_x) >>]
               /\ MaxXIsOne(coords)
          ELSE coords = coordinate_data

\* ------------------------------------------------------------------ generate_naca_4digit

\* The characters a code string is drawn from.
CodeChars == {"0", "2", "x"}

IsDigitChar(c) == c \in {"0", "1", "2", "3", "4", "5", "6", "7", "8", "9"}

\* int(c) for the digits of CodeChars.
DigitValue(c) == IF c = "2" THEN 2 ELSE 0

StrCode(chars) == [type |-> "str", chars |-> chars, n |-> 0]
IntCode(n) == [type |-> "int", chars |-> <<>>, n |-> n]
NullCode == [type |-> "null", chars |-> <<>>, n |-> 0]

\* The values data.get('naca_code') can hold: strings, JSON numbers, null.
Codes ==
    { StrCode(c) : c \in SeqsUpTo(CodeChars, MaxCodeLen) }
        \cup { IntCode(0), IntCode(2412), NullCode }

\* str.isdigit(): non-empty and all digits.
IsDigit(chars) == chars # <<>> /\ \A j \in 1..Len(chars) : IsDigitChar(chars[j])

\* bool(code)
Truthy(code) ==
    CASE code.type = "str" -> code.chars # <<>>
      [] code.type = "int" -> code.n # 0
      [] OTHER -> FALSE

InvalidCodeError == "ValueError: NACA code must be a 4-digit string"

\* len(code) of a number or of None raises TypeError.
NoLenError(code) ==
    IF code.type = "int" THEN "TypeError: object of type 'int' has no len()"
    ELSE "TypeError: object of type 'NoneType' has no len()"

\* num_points of the signature (line 9), used by the route.
DefaultNumPoints == 81

\* Lines 29-59: the arrays over the stations 0..n-1 of the cosine spacing.
\* An entry stands for the float the formulas give at that station.
SurfaceArray(name, n) == [j \in 1..n |-> [array |-> name, station |-> j - 1]]

\* Mutant: the lower surface keeps its leading-edge point.
SurfaceCoordinatesKeepingLeadingEdge(n) ==
    [x |-> Reverse(SurfaceArray("xu", n)) \o SurfaceArray("xl", n),
     y |-> Reverse(SurfaceArray("yu", n)) \o SurfaceArray("yl", n)]

\* Lines 61-72: xu[::-1] then xl[1:], and the same for y.
SurfaceCoordinates(n) ==
    [x |-> Reverse(SurfaceArray("xu", n)) \o Tail(SurfaceArray("xl", n)),
     y |-> Reverse(SurfaceArray("yu", n)) \o Tail(SurfaceArray("yl", n))]

\* Lines 24-26, 75: the code and M, P, T in percent.
HeaderInfo(chars) ==
    [code |-> chars,
     M |-> DigitValue(chars[1]),
     P |-> 10 * DigitValue(chars[2]),
     T |-> 10 * DigitValue(chars[3]) + DigitValue(chars[4])]

NoCoordinates == [x |-> <<>>, y |-> <<>>]

\* generate_naca_4digit(naca_code, num_points): what it raises or returns.
generate_naca_4digit(code, n) ==
    IF code.type # "str"
    THEN [raised |-> NoLenError(code), coords |-> NoCoordinates, header |-> <<>>]
    ELSE IF Len(code.chars) # 4 \/ ~IsDigit(code.chars)
    THEN [raised |-> InvalidCodeError, coords |-> NoCoordinates, header |-> <<>>]
    ELSE [raised |-> "", coords |-> SurfaceCoordinates(n),
          header |-> << HeaderInfo(code.chars) >>]

\* format_airfoil_txt: the header line, or none, and one row per point.
format_airfoil_txt(cs, header, solidworks) ==
    IF solidworks
    THEN [j \in 1..Len(cs.x) |-> RowLine(<< cs.x[j], cs.y[j], Fin(0) >>)]
    ELSE << NameLine(header) >> \o [j \in 1..Len(cs.x) |-> RowLine(<< cs.x[j], cs.y[j] >>)]

\* A direct call, or a /generate-naca request, arrives.
GenRequest ==
    /\ gen_pc \in {"call", "route"}
    /\ naca_code \in Codes
    /\ num_points \in IF gen_pc = "call" THEN 1..MaxPoints ELSE {DefaultNumPoints}
    /\ gen_coords = NoCoordinates
    /\ gen_header = <<>>
    /\ gen_raised = ""
    /\ gen_response = NoResponse

\* generate_naca_4digit called by a caller of the module.
GenerateCall ==
    /\ gen_pc = "call"
    /\ LET r == generate_naca_4digit(naca_code, num_points)
       IN  /\ gen_raised' = r.raised
           /\ gen_coords' = r.coords
           /\ gen_header' = r.header
    /\ gen_pc' = "returned"
    /\ UNCHANGED << naca_code, num_points, gen_response >>
    /\ UNCHANGED << csv_vars, norm_vars, upload_vars >>

\* Route lines 17-19: the answer to a code the validation rejects.
RouteRejectsCode ==
    /\ gen_pc = "route"
    /\ \/ ~Truthy(naca_code)
       \/ /\ naca_code.type = "str"
          /\ Len(naca_code.chars) # 4 \/ ~IsDigit(naca_code.chars)
    /\ gen_response' = ErrorResponse(400, "Invalid NACA code. Must be 4 digits.")
    /\ gen_pc' = "answered"
    /\ UNCHANGED << naca_code, num_points, gen_coords, gen_header, gen_raised >>
    /\ UNCHANGED << csv_vars, norm_vars, upload_vars >>

\* Route lines 18, 34-35: len() of a truthy code that is no string raises, and
\* the handler answers 500 with the exception's message.
RouteValidationRaises ==
    /\ gen_pc = "route"
    /\ Truthy(naca_code)
    /\ naca_code.type # "str"
    /\ gen_raised' = NoLenError(naca_code)
    /\ gen_response' = ErrorResponse(500, NoLenError(naca_code))
    /\ gen_pc' = "answered"
    /\ UNCHANGED << naca_code, num_points, gen_coords, gen_header >>
    /\ UNCHANGED << csv_vars, norm_vars, upload_vars >>

\* Route lines 21-32: a code that passes the validation is generated with the
\* default point count and formatted.
RouteGenerates ==
    /\ gen_pc = "route"
    /\ naca_code.type = "str"
    /\ Len(naca_code.chars) = 4
    /\ IsDigit(naca_code.chars)
    /\ LET r == generate_naca_4digit(naca_code, num_points)
       IN  /\ gen_raised' = r.raised
           /\ gen_coords' = r.coords
           /\ gen_header' = r.header
           /\ \E solidworks_format \in BOOLEAN :
                gen_response' =
                  IF r.raised # ""
                  THEN ErrorResponse(500, r.raised)
                  ELSE [status |-> 200, error |-> "",
                        coordinates |-> format_airfoil_txt(r.coords, r.header, solidworks_format),
                        name |-> << "NACA" >> \o naca_code.chars,
                        format |-> IF solidworks_format THEN "solidworks" ELSE "standard",
                        point_count |-> Len(r.coords.x),
                        metadata |-> NoMetadata]
    /\ gen_pc' = "answered"
    /\ UNCHANGED << naca_code, num_points >>
    /\ UNCHANGED << csv_vars, norm_vars, upload_vars >>

InitNaca == CsvIdle /\ GenRequest /\ NormIdle /\ UploadsIdle

NextNaca ==
    \/ GenerateCall
    \/ RouteRejectsCode
    \/ RouteValidationRaises
    \/ RouteGenerates

SpecNaca == InitNaca /\ [][NextNaca]_vars

\* A code that is not exactly four digit characters.
InvalidCode(code) == ~(code.type = "str" /\ Len(code.chars) = 4 /\ IsDigit(code.chars))

\* C6 (as claimed): every code that is not exactly 4 digit characters (wrong
\* length, a non-digit, empty, or no string at all) makes generation fail
\* with the invalid-code error and no coordinates, and makes the route answer
\* 4xx with a message and no coordinates.
InvalidCodesRejected ==
    InvalidCode(naca_code) =>
      /\ gen_coords = NoCoordinates
      /\ gen_pc = "returned" => gen_raised = InvalidCodeError
      /\ gen_pc = "answered" =>
           /\ gen_response.status \in 400..499
           /\ gen_response.error # ""
           /\ gen_response.coordinates = <<>>

\* C7: for a valid code and n >= 1 points, 2n-1 points are returned: the
\* upper surface at stations n-1 down to 0, then the lower surface at stations
\* 1 to n-1, so that station 0 is emitted once.
UpperThenLowerWithoutLeadingEdge ==
    (gen_pc \in {"returned", "answered"} /\ ~InvalidCode(naca_code)) =>
      LET n == num_points
          xs == gen_coords.x
          ys == gen_coords.y
      IN  /\ gen_raised = ""
          /\ Len(xs) = 2 * n - 1
          /\ Len(ys) = 2 * n - 1
          /\ \A q \in 1..n :
               /\ xs[q] = [array |-> "xu", station |-> n - q]
               /\ ys[q] = [array |-> "yu", station |-> n - q]
          /\ \A q \in 1..(n - 1) :
               /\ xs[n + q] = [array |-> "xl", station |-> q]
               /\ ys[n + q] = [array |-> "yl", station |-> q]
          /\ Cardinality({ q \in 1..Len(xs) : xs[q].station = 0 }) = 1
          /\ gen_pc = "answered" => gen_response.point_count = 2 * n - 1

\* C7's case: a direct call with three stations has returned five points.
FivePointsForThreeStations ==
    /\ gen_pc = "returned"
    /\ ~InvalidCode(naca_code)
    /\ num_points = 3
    /\ Len(gen_coords.x) = 5

\* ------------------------------------------------------------------ process_coordinates_for_output on its own

\* The points a sequence is drawn from: (0, 0), (0, 0.5), (0.0000005, 0),
\* (0.5, 0.5) and (1, 0).
PointSet ==
    { << Fin(0), Fin(0) >>,
      << Fin(0), Fin(Scale \div 2) >>,
      << Fin(Micro \div 2), Fin(0) >>,
      << Fin(Scale \div 2), Fin(Scale \div 2) >>,
      << Fin(Scale), Fin(0) >> }

NormRequest ==
    /\ norm_pc = "input"
    /\ norm_in \in SeqsUpTo(PointSet, MaxSeqLen) \ { <<>> }
    /\ norm_out = <<>>

\* process_coordinates_for_output(x_coords, y_coords) called and returned.
Normalize ==
    /\ norm_pc = "input"
    /\ norm_out' = process_coordinates_for_output(norm_in)
    /\ norm_pc' = "done"
    /\ UNCHANGED norm_in
    /\ UNCHANGED << csv_vars, gen_vars, upload_vars >>

InitNorm == CsvIdle /\ GenIdle /\ NormRequest /\ UploadsIdle

NextNorm == Normalize

SpecNorm == InitNorm /\ [][NextNorm]_vars

\* The points of a sequence with their multiplicities.
PointBag(ps) ==
    [e \in { ps[j] : j \in 1..Len(ps) } |->
        Cardinality({ j \in 1..Len(ps) : ps[j] = e })]

NonIncreasingX(ps) == \A j \in 1..(Len(ps) - 1) : ~Less(ps[j][1], ps[j + 1][1])
NonDecreasingX(ps) == \A j \in 1..(Len(ps) - 1) : ~Less(ps[j + 1][1], ps[j][1])

\* A point of ps with the least x.
IsLeastX(d, ps) == \A j \in 1..Len(ps) : ~Less(ps[j][1], d[1])

\* Two points that coincide within 1e-6 in x and in y.
SamePoint(d, e) == AbsDiffLess(d[1], e[1], Micro) /\ AbsDiffLess(d[2], e[2], Micro)

\* C10 (as claimed): the input is split at its midpoint index; the output is
\* the first half by non-increasing x, then the second half by non-decreasing
\* x, less its first point exactly when that point's x is within 1e-6 of the x
\* of the last upper point; the removed point is a duplicate of that retained
\* leading-edge point; nothing else is added, removed or altered.
NormalizeDropsOnlyADuplicate ==
    norm_pc = "done" =>
      LET u == (Len(norm_in) \div 2) + 1
          upper_in == SubSeq(norm_in, 1, u)
          lower_in == SubSeq(norm_in, u + 1, Len(norm_in))
          upper == SubSeq(norm_out, 1, u)
          lower == SubSeq(norm_out, u + 1, Len(norm_out))
          leading == upper[u]
      IN  /\ Len(norm_out) >= u
          /\ PointBag(upper) = PointBag(upper_in)
          /\ NonIncreasingX(upper)
          /\ NonDecreasingX(lower)
          /\ \/ /\ PointBag(lower) = PointBag(lower_in)
                /\ lower = <<>> \/ ~AbsDiffLess(lower[1][1], leading[1], Micro)
             \/ \E j \in 1..Len(lower_in) :
                  LET removed == lower_in[j]
                  IN  /\ PointBag(<< removed >> \o lower) = PointBag(lower_in)
                      /\ IsLeastX(removed, lower_in)
                      /\ AbsDiffLess(removed[1], leading[1], Micro)
                      /\ SamePoint(removed, leading)

\* ------------------------------------------------------------------ process_coordinates_for_output applied to its own result

\* A caller passes the (processed_x, processed_y) a call returned to
\* process_coordinates_for_output again.
NormalizeAgain ==
    /\ norm_pc = "done"
    /\ norm_in' = norm_out
    /\ norm_out' = process_coordinates_for_output(norm_out)
    /\ norm_pc' = "again"
    /\ UNCHANGED << csv_vars, gen_vars, upload_vars >>

NextRenorm == Normalize \/ NormalizeAgain

SpecRenorm == InitNorm /\ [][NextRenorm]_vars

\* C11 (as claimed): normalize is idempotent: the second application returns
\* the sequence it was given, the result of the first, with no point
\* reordered and none dropped.
NormalizeIsIdempotent ==
    norm_pc = "again" => norm_out = norm_in

\* ------------------------------------------------------------------ /process-csv requests served at once

\* Each action is one call on the file system by one request; between two of
\* them any other request may run.

UploadsRequest ==
    /\ req_pc = [r \in Requests |-> "request"]
    /\ req_upload \in [Requests -> {"missing", "nodata", "good"}]
    /\ UploadsFresh

\* Route lines 41-46: no file part, or one with no name; nothing is created.
RejectUpload(r) ==
    /\ req_pc[r] = "request"
    /\ req_upload[r] = "missing"
    /\ req_status' = [req_status EXCEPT ![r] = 400]
    /\ req_pc' = [req_pc EXCEPT ![r] = "done"]
    /\ UNCHANGED << req_upload, temp_file, temp_path, disk, req_read, req_unlinked >>
    /\ UNCHANGED << csv_vars, gen_vars, norm_vars >>

\* Route line 51: NamedTemporaryFile(delete=False) creates a file under a
\* name no existing file has.
CreateTempFile(r) ==
    /\ req_pc[r] = "request"
    /\ req_upload[r] # "missing"
    /\ \E n \in TempNames :
         /\ ~disk[n].on
         /\ disk' = [disk EXCEPT ![n] = [on |-> TRUE, creator |-> r, content |-> ""]]
         /\ temp_file' = [temp_file EXCEPT ![r] = n]
    /\ req_pc' = [req_pc EXCEPT ![r] = "save"]
    /\ UNCHANGED << req_upload, temp_path, req_read, req_unlinked, req_status >>
    /\ UNCHANGED << csv_vars, gen_vars, norm_vars >>

\* Route lines 52-53: file.save(temp_file.name) opens the path for writing
\* (creating it when absent) and copies the upload; temp_path is assigned.
SaveInto(r) ==
    /\ req_pc[r] = "save"
    /\ LET n == temp_file[r]
       IN  /\ disk' = [disk EXCEPT ![n] =
                         [on |-> TRUE,
                          creator |-> IF disk[n].on THEN disk[n].creator ELSE r,
                          content |-> req_upload[r]]]
           /\ temp_path' = [temp_path EXCEPT ![r] = n]
    /\ req_pc' = [req_pc EXCEPT ![r] = "parse"]
    /\ UNCHANGED << req_upload, temp_file, req_read, req_unlinked, req_status >>
    /\ UNCHANGED << csv_vars, gen_vars, norm_vars >>

\* Route lines 52, 87-88: file.save raises (the disk is full, the client's
\* stream breaks); the with block closes the file, temp_path is never
\* assigned, the try of line 55 is never entered and the outer handler
\* answers 500.
SaveIntoFails(r) ==
    /\ req_pc[r] = "save"
    /\ req_status' = [req_status EXCEPT ![r] = 500]
    /\ req_pc' = [req_pc EXCEPT ![r] = "done"]
    /\ UNCHANGED << req_upload, temp_file, temp_path, disk, req_read, req_unlinked >>
    /\ UNCHANGED << csv_vars, gen_vars, norm_vars >>

\* Route lines 57-80: parse_airfoil_csv opens temp_path and reads it; the
\* answer is 200 when coordinates were found, and an exception is in flight
\* (answered 500 at line 88) when none were or the file is gone.
ParseTemp(r) ==
    /\ req_pc[r] = "parse"
    /\ LET f == disk[temp_path[r]]
       IN  /\ req_read' = [req_read EXCEPT ![r] = IF f.on THEN f.creator ELSE 0]
           /\ req_status' = [req_status EXCEPT ![r] =
                               IF f.on /\ f.content = "good" THEN 200 ELSE 500]
    /\ req_pc' = [req_pc EXCEPT ![r] = "exists"]
    /\ UNCHANGED << req_upload, temp_file, temp_path, disk, req_unlinked >>
    /\ UNCHANGED << csv_vars, gen_vars, norm_vars >>

\* Route line 84: os.path.exists(temp_path).
ExistsCheck(r) ==
    /\ req_pc[r] = "exists"
    /\ req_pc' = [req_pc EXCEPT ![r] =
                    IF disk[temp_path[r]].on THEN "unlink" ELSE "done"]
    /\ UNCHANGED << req_upload, temp_file, temp_path, disk, req_read,
                    req_unlinked, req_status >>
    /\ UNCHANGED << csv_vars, gen_vars, norm_vars >>

\* Route lines 85-88: os.unlink(temp_path); on a file that is gone it raises
\* and the outer handler answers 500.
Unlink(r) ==
    /\ req_pc[r] = "unlink"
    /\ LET n == temp_path[r]
       IN  IF disk[n].on
           THEN /\ req_unlinked' = [req_unlinked EXCEPT ![r] = disk[n].creator]
                /\ disk' = [disk EXCEPT ![n] = NoFile]
                /\ UNCHANGED req_status
           ELSE /\ req_status' = [req_status EXCEPT ![r] = 500]
                /\ UNCHANGED << disk, req_unlinked >>
    /\ req_pc' = [req_pc EXCEPT ![r] = "done"]
    /\ UNCHANGED << req_upload, temp_file, temp_path, req_read >>
    /\ UNCHANGED << csv_vars, gen_vars, norm_vars >>

InitUploads == CsvIdle /\ GenIdle /\ NormIdle /\ UploadsRequest

NextUploads ==
    \E r \in Requests :
        \/ RejectUpload(r)
        \/ CreateTempFile(r)
        \/ SaveInto(r)
        \/ SaveIntoFails(r)
        \/ ParseTemp(r)
        \/ ExistsCheck(r)
        \/ Unlink(r)

SpecUploads == InitUploads /\ [][NextUploads]_vars

\* Request r has returned and no file it created is left on disk.
OwnFilesDeleted(r) ==
    req_pc[r] = "done" => \A n \in TempNames : ~(disk[n].on /\ disk[n].creator = r)

\* Request r has opened and unlinked no file but one it created.
TouchedOnlyOwnFile(r) ==
    /\ req_read[r] \in {0, r}
    /\ req_unlinked[r] \in {0, r}

\* C12 (as claimed): every temporary file created for an upload has been
\* deleted by the time its request returns, on every path (conversion done,
\* parse failed, saving the upload failed), and no request reads or deletes
\* the temporary file of another.
TempFilesDeletedAndPrivate ==
    \A r \in Requests : OwnFilesDeleted(r) /\ TouchedOnlyOwnFile(r)

====
